---- MODULE Spec2Model ----
(***************************************************************************)
(* Model of anonymize_survival.py: the command `main`, which turns a table *)
(* of patients (split diagnosis / last-contact dates and a vital status)   *)
(* into a CSV of censor flags and survival days relative to a fixed study  *)
(* end date.  `main` is one straight-line function; the model follows its  *)
(* statements in order, one action per block of the function, with `pc`    *)
(* the position reached.                                                   *)
(***************************************************************************)
EXTENDS Integers, Sequences, FiniteSets, TLC

VARIABLES
    pc,                \* position in main
    infile,            \* the table stored at --inpath: [columns, rows]
    outpath_at_start,  \* what --outpath held when main started
    outfile,           \* what --outpath holds now
    alive,             \* --vital-status-value-alive
    deceased,          \* --vital-status-value-deceased
    df,                \* the data frame: [columns, rows], or NotRead
    dates,             \* dates_diagnosis / dates_last_contact: formatted strings
    mask,              \* diagnosed_prior_to_study_end, aligned with df rows
    exit_code,         \* the process's exit status, or Running
    log                \* colours of the click.secho messages printed so far

vars == <<pc, infile, outpath_at_start, outfile, alive, deceased, df, dates,
          mask, exit_code, log>>

(***************************************************************************)
(* Bounds of the model.                                                    *)
(***************************************************************************)
MaxRows == 2

(***************************************************************************)
(* Column names (the defaults of the command-line options).                *)
(***************************************************************************)
col_index == "STUDYID"
col_dod_yyyy == "D_DATE_OF_DIAGNOSIS_YYYY"
col_dod_mm == "D_DATE_OF_DIAGNOSIS_MM"
col_dod_dd == "D_DATE_OF_DIAGNOSIS_DD"
col_dolc_yyyy == "D_DATE_OF_LAST_CONTACT_YYYY"
col_dolc_mm == "D_DATE_OF_LAST_CONTACT_MM"
col_dolc_dd == "D_DATE_OF_LAST_CONTACT_DD"
col_vital_status == "D_VITAL_STATUS"

expected_cols ==
    << col_index, col_dod_yyyy, col_dod_mm, col_dod_dd,
       col_dolc_yyyy, col_dolc_mm, col_dolc_dd, col_vital_status >>

Range(s) == { s[i] : i \in 1..Len(s) }

(***************************************************************************)
(* Python values that can sit in the censor column: an int, a str, or a    *)
(* missing value (NaN).                                                    *)
(***************************************************************************)
PyInt(n) == [kind |-> "int", i |-> n, s |-> ""]
PyStr(x) == [kind |-> "str", i |-> 0, s |-> x]
PyNaN == [kind |-> "nan", i |-> 0, s |-> ""]

(***************************************************************************)
(* Strings are sequences of one-character strings.                         *)
(***************************************************************************)
DigitChars == <<"0", "1", "2", "3", "4", "5", "6", "7", "8", "9">>

IsDigit(c) == c \in Range(DigitChars)

DigitValue == [c \in Range(DigitChars) |-> (CHOOSE k \in 1..10 : DigitChars[k] = c) - 1]

DigitVal(c) == DigitValue[c]

\* str(n) of a non-negative int, as the f-string formats it
RECURSIVE IntStr(_)
IntStr(n) ==
    IF n < 10 THEN << DigitChars[n + 1] >>
    ELSE IntStr(n \div 10) \o << DigitChars[(n % 10) + 1] >>

\* f"{y}-{m}-{d}"
FormatYMD(y, m, d) == IntStr(y) \o <<"-">> \o IntStr(m) \o <<"-">> \o IntStr(d)

get_dt_diagnosis(row) ==
    FormatYMD(row[col_dod_yyyy], row[col_dod_mm], row[col_dod_dd])

get_dt_last_contact(row) ==
    FormatYMD(row[col_dolc_yyyy], row[col_dolc_mm], row[col_dolc_dd])

(***************************************************************************)
(* Calendar arithmetic behind pandas' Timestamp: a date is kept as its     *)
(* proleptic Gregorian day number, NaT as an invalid timestamp.            *)
(***************************************************************************)
NaT == [valid |-> FALSE, ord |-> 0]
Timestamp(o) == [valid |-> TRUE, ord |-> o]

IsLeap(y) == (y % 4 = 0) /\ ((y % 100 # 0) \/ (y % 400 = 0))

DaysInMonth(y, m) ==
    IF m = 2 THEN (IF IsLeap(y) THEN 29 ELSE 28)
    ELSE IF m \in {4, 6, 9, 11} THEN 30 ELSE 31

\* days of a common year before the first of each month
CumulativeDays == <<0, 31, 59, 90, 120, 151, 181, 212, 243, 273, 304, 334>>

DaysBeforeMonth(y, m) ==
    CumulativeDays[m] + (IF m > 2 /\ IsLeap(y) THEN 1 ELSE 0)

\* mutant: leap days of earlier years are not counted
DaysBeforeYear_no_leap(y) == (y - 1) * 365

DaysBeforeYear(y) ==
    LET p == y - 1 IN (p * 365) + (p \div 4) - (p \div 100) + (p \div 400)

Ordinal(y, m, d) == DaysBeforeYear(y) + DaysBeforeMonth(y, m) + d

(***************************************************************************)
(* pd.to_datetime(s, format="%Y-%m-%d", errors="coerce") of one string.    *)
(***************************************************************************)
\* the positions of the separators "-" in s
Dashes(s) == { k \in 1..Len(s) : s[k] = "-" }

Least(S) == CHOOSE k \in S : \A j \in S : k <= j
Greatest(S) == CHOOSE k \in S : \A j \in S : k >= j

AllDigits(f) == Len(f) > 0 /\ \A k \in 1..Len(f) : IsDigit(f[k])

\* the number written by the first k digits of f
RECURSIVE ParseInt(_, _)
ParseInt(f, k) ==
    IF k = 0 THEN 0 ELSE (ParseInt(f, k - 1) * 10) + DigitVal(f[k])

\* whether year y, month m, day d name a day of the calendar
ValidYMD(y, m, d) == m \in 1..12 /\ d >= 1 /\ d <= DaysInMonth(y, m)

\* the timestamp of year y, month m, day d, NaT when they name no day
FromYMD(y, m, d) == IF ValidYMD(y, m, d) THEN Timestamp(Ordinal(y, m, d)) ELSE NaT

\* the timestamp written by the year, month and day fields fy, fm, fd:
\* %Y is four digits, %m and %d one or two
FromFields(fy, fm, fd) ==
    IF ~(AllDigits(fy) /\ AllDigits(fm) /\ AllDigits(fd)) THEN NaT
    ELSE IF Len(fy) # 4 \/ Len(fm) > 2 \/ Len(fd) > 2 THEN NaT
    ELSE FromYMD(ParseInt(fy, 4), ParseInt(fm, Len(fm)), ParseInt(fd, Len(fd)))

\* a string that does not match the format, or names no day, is coerced
\* to NaT
to_datetime(s) ==
    IF Cardinality(Dashes(s)) # 2 THEN NaT
    ELSE FromFields(SubSeq(s, 1, Least(Dashes(s)) - 1),
                    SubSeq(s, Least(Dashes(s)) + 1, Greatest(Dashes(s)) - 1),
                    SubSeq(s, Greatest(Dashes(s)) + 1, Len(s)))

END_DATE == to_datetime(<<"2", "0", "2", "0", "-", "1", "2", "-", "3", "1">>)

(***************************************************************************)
(* The inputs of a run: the table at --inpath, the state of --outpath and  *)
(* the two sentinel options.                                               *)
(***************************************************************************)
\* (year, month, day) cells that name a day: before, on and after END_DATE
DiagYMD == { <<2015, 1, 1>>, <<2020, 12, 31>>, <<2021, 1, 5>> }

ContactYMD == { <<2019, 6, 15>>, <<2020, 12, 31>>, <<2021, 3, 1>> }

Statuses == { "Alive", "Dead", "Unknown" }

SentinelChoices == { <<"Alive", "Dead">>, <<"Alive", "Alive">> }

\* rows with cells that name no day: month 13, 29 February 2019, a year of
\* three digits
BadRows ==
    { << <<2015, 13, 1>>, <<2019, 6, 15>>, "Alive" >>,
      << <<2015, 1, 1>>, <<2019, 2, 29>>, "Dead" >>,
      << <<215, 1, 1>>, <<2021, 3, 1>>, "Unknown" >> }

RowContents == (DiagYMD \X ContactYMD \X Statuses) \cup BadRows

\* the row of patient i with diagnosis dg, last contact lc and vital status st
MakeRow(i, dg, lc, st) ==
    (col_index :> i) @@
    (col_dod_yyyy :> dg[1]) @@ (col_dod_mm :> dg[2]) @@ (col_dod_dd :> dg[3]) @@
    (col_dolc_yyyy :> lc[1]) @@ (col_dolc_mm :> lc[2]) @@ (col_dolc_dd :> lc[3]) @@
    (col_vital_status :> st)

Restrict(r, cols) == [c \in cols |-> r[c]]

\* a table holding every expected column, with the rows c[1], ..., c[n]
FullTable(n, c) ==
    [columns |-> Range(expected_cols),
     rows |-> [i \in 1..n |-> MakeRow(i, c[i][1], c[i][2], c[i][3])]]

MissingChoices ==
    { {col_vital_status}, {col_index, col_dod_mm}, {col_dolc_dd} }

\* a table of n rows lacking the columns miss
PartialTable(n, miss) ==
    [columns |-> Range(expected_cols) \ miss,
     rows |-> [i \in 1..n |->
                 Restrict(MakeRow(i, <<2015, 1, 1>>, <<2019, 6, 15>>, "Alive"),
                          Range(expected_cols) \ miss)]]

NoFile == [exists |-> FALSE, header |-> << >>, rows |-> << >>]
PriorFile == [exists |-> TRUE, header |-> <<"prior">>, rows |-> << >>]

NotRead == [loaded |-> FALSE, columns |-> {}, rows |-> << >>]
Running == "running"

Init ==
    /\ pc = "start"
    /\ \E n \in 0..MaxRows :
          \/ \E c \in [1..n -> RowContents] : infile = FullTable(n, c)
          \/ \E miss \in MissingChoices : infile = PartialTable(n, miss)
    /\ outpath_at_start \in {NoFile, PriorFile}
    /\ outfile = outpath_at_start
    /\ \E sv \in SentinelChoices : alive = sv[1] /\ deceased = sv[2]
    /\ df = NotRead
    /\ dates = << >>
    /\ mask = << >>
    /\ exit_code = Running
    /\ log = << >>

(***************************************************************************)
(* main, block by block.                                                   *)
(***************************************************************************)
\* sys.exit(1) after a red message
Abort ==
    /\ log' = Append(log, "red")
    /\ exit_code' = 1
    /\ pc' = "exit"

\* mutant: the existence check never fires
PathExists_never(f) == FALSE

PathExists(f) == f.exists

\* if Path(outpath).exists(): ... sys.exit(1)
CheckOutpath ==
    /\ pc = "start"
    /\ IF PathExists(outfile)
       THEN Abort
       ELSE pc' = "read" /\ UNCHANGED <<log, exit_code>>
    /\ UNCHANGED <<infile, outpath_at_start, outfile, alive, deceased, df, dates, mask>>

\* df = pd.read_<filetype>(inpath, ...)
ReadInput ==
    /\ pc = "read"
    /\ df' = [loaded |-> TRUE, columns |-> infile.columns, rows |-> infile.rows]
    /\ pc' = "check_columns"
    /\ UNCHANGED <<infile, outpath_at_start, outfile, alive, deceased, dates,
                   mask, exit_code, log>>

\* mutant: no column is ever reported missing
missing_cols_none(columns) == << >>

\* expected_cols[~expected_cols.isin(df.columns)]
missing_cols(columns) ==
    LET absent(c) == c \notin columns IN SelectSeq(expected_cols, absent)

CheckColumns ==
    /\ pc = "check_columns"
    /\ IF missing_cols(df.columns) # << >>
       THEN Abort
       ELSE pc' = "check_vital_status" /\ UNCHANGED <<log, exit_code>>
    /\ UNCHANGED <<infile, outpath_at_start, outfile, alive, deceased, df, dates, mask>>

\* mutant: an absent deceased sentinel aborts the run like an absent alive one
CheckVitalStatus_strict ==
    /\ pc = "check_vital_status"
    /\ IF \/ alive \notin { df.rows[i][col_vital_status] : i \in 1..Len(df.rows) }
          \/ deceased \notin { df.rows[i][col_vital_status] : i \in 1..Len(df.rows) }
       THEN Abort
       ELSE pc' = "dates" /\ UNCHANGED <<log, exit_code>>
    /\ UNCHANGED <<infile, outpath_at_start, outfile, alive, deceased, df, dates, mask>>

\* set(df[col])
ColumnSet(rows, col) == { rows[i][col] : i \in 1..Len(rows) }

CheckVitalStatus ==
    /\ pc = "check_vital_status"
    /\ IF alive \notin ColumnSet(df.rows, col_vital_status)
       THEN Abort
       ELSE /\ pc' = "dates"
            /\ log' = IF deceased \notin ColumnSet(df.rows, col_vital_status)
                      THEN Append(log, "yellow")
                      ELSE log
            /\ UNCHANGED exit_code
    /\ UNCHANGED <<infile, outpath_at_start, outfile, alive, deceased, df, dates, mask>>

\* dates_diagnosis = df.apply(get_dt_diagnosis, axis=1, ...)
FormatDiagnosis ==
    /\ pc = "dates"
    /\ dates' = [i \in 1..Len(df.rows) |-> get_dt_diagnosis(df.rows[i])]
    /\ pc' = "parse_diagnosis"
    /\ UNCHANGED <<infile, outpath_at_start, outfile, alive, deceased, df,
                   mask, exit_code, log>>

\* df[col] = pd.to_datetime(series, format="%Y-%m-%d", errors="coerce")
WithColumn(frame, col, series) ==
    [frame EXCEPT
       !.columns = @ \cup {col},
       !.rows = [i \in 1..Len(@) |-> @[i] @@ (col :> to_datetime(series[i]))]]

\* df["date_of_diagnosis_yyyymmdd"] = pd.to_datetime(...); del dates_diagnosis
ParseDiagnosis ==
    /\ pc = "parse_diagnosis"
    /\ df' = WithColumn(df, "date_of_diagnosis_yyyymmdd", dates)
    /\ dates' = << >>
    /\ pc' = "format_last_contact"
    /\ UNCHANGED <<infile, outpath_at_start, outfile, alive, deceased,
                   mask, exit_code, log>>

\* dates_last_contact = df.apply(get_dt_last_contact, axis=1, ...)
FormatLastContact ==
    /\ pc = "format_last_contact"
    /\ dates' = [i \in 1..Len(df.rows) |-> get_dt_last_contact(df.rows[i])]
    /\ pc' = "parse_last_contact"
    /\ UNCHANGED <<infile, outpath_at_start, outfile, alive, deceased, df,
                   mask, exit_code, log>>

\* df["date_of_last_contact_yyyymmdd"] = pd.to_datetime(...); del dates_last_contact
ParseLastContact ==
    /\ pc = "parse_last_contact"
    /\ df' = WithColumn(df, "date_of_last_contact_yyyymmdd", dates)
    /\ dates' = << >>
    /\ pc' = "dropna"
    /\ UNCHANGED <<infile, outpath_at_start, outfile, alive, deceased,
                   mask, exit_code, log>>

\* mutant: only the diagnosis date is looked at
dropna_diagnosis_only(rows) ==
    LET keep(r) == r["date_of_diagnosis_yyyymmdd"].valid IN SelectSeq(rows, keep)

\* df.dropna(subset=[...]): the rows with no NaT in the two date columns
dropna(rows) ==
    LET keep(r) == /\ r["date_of_diagnosis_yyyymmdd"].valid
                   /\ r["date_of_last_contact_yyyymmdd"].valid
    IN SelectSeq(rows, keep)

DropUnparseable ==
    /\ pc = "dropna"
    /\ df' = [df EXCEPT !.rows = dropna(@)]
    /\ pc' = "mask"
    /\ UNCHANGED <<infile, outpath_at_start, outfile, alive, deceased, dates,
                   mask, exit_code, log>>

\* df["date_of_diagnosis_yyyymmdd"] <= END_DATE, for one row
diagnosed_prior_to_study_end(r) ==
    r["date_of_diagnosis_yyyymmdd"].ord <= END_DATE.ord

ComputeMask ==
    /\ pc = "mask"
    /\ mask' = [i \in 1..Len(df.rows) |-> diagnosed_prior_to_study_end(df.rows[i])]
    /\ pc' = "reclassify"
    /\ UNCHANGED <<infile, outpath_at_start, outfile, alive, deceased, df,
                   dates, exit_code, log>>

\* mutant: last contact on the study end date counts as after it
deceased_overall_but_alive_inclusive(r) ==
    /\ r["date_of_last_contact_yyyymmdd"].ord >= END_DATE.ord
    /\ r[col_vital_status] = deceased

\* last_contact_after_study_end & deceased, for one row
deceased_overall_but_alive_at_study_end(r) ==
    /\ r["date_of_last_contact_yyyymmdd"].ord > END_DATE.ord
    /\ r[col_vital_status] = deceased

\* the copy of the vital status and the df.loc[...] = alive assignment
vital_status_at_study_end(r) ==
    IF deceased_overall_but_alive_at_study_end(r) THEN alive
    ELSE r[col_vital_status]

Reclassify ==
    /\ pc = "reclassify"
    /\ df' = [df EXCEPT
                !.columns = @ \cup {"vital_status_at_study_end"},
                !.rows = [i \in 1..Len(@) |->
                            @[i] @@ ("vital_status_at_study_end" :>
                                       vital_status_at_study_end(@[i]))]]
    /\ pc' = "clip"
    /\ UNCHANGED <<infile, outpath_at_start, outfile, alive, deceased, dates,
                   mask, exit_code, log>>

\* mutant: nothing is clipped
clip_none(t, upper) == t

\* Series.clip(upper=...), for one timestamp
clip(t, upper) == IF t.ord > upper.ord THEN upper ELSE t

ClipLastContact ==
    /\ pc = "clip"
    /\ df' = [df EXCEPT
                !.columns = @ \cup {"date_of_last_contact_clipped_yyyymmdd"},
                !.rows = [i \in 1..Len(@) |->
                            @[i] @@ ("date_of_last_contact_clipped_yyyymmdd" :>
                                       clip(@[i]["date_of_last_contact_yyyymmdd"],
                                            END_DATE))]]
    /\ pc' = "filter"
    /\ UNCHANGED <<infile, outpath_at_start, outfile, alive, deceased, dates,
                   mask, exit_code, log>>

\* df.loc[m, :]: the rows whose entry in the boolean mask m is True
RECURSIVE loc(_, _)
loc(rows, m) ==
    IF rows = << >> THEN << >>
    ELSE (IF Head(m) THEN << Head(rows) >> ELSE << >>) \o loc(Tail(rows), Tail(m))

FilterDiagnosed ==
    /\ pc = "filter"
    /\ df' = [df EXCEPT !.rows = loc(@, mask)]
    /\ pc' = "survival"
    /\ UNCHANGED <<infile, outpath_at_start, outfile, alive, deceased, dates,
                   mask, exit_code, log>>

\* mutant: both end days are counted
days_between_inclusive(a, b) == (a.ord - b.ord) + 1

\* (a - b).dt.days for two timestamps at midnight
days_between(a, b) == a.ord - b.ord

survivalA(r) ==
    days_between(r["date_of_last_contact_clipped_yyyymmdd"],
                 r["date_of_diagnosis_yyyymmdd"])

ComputeSurvival ==
    /\ pc = "survival"
    /\ df' = [df EXCEPT
                !.columns = @ \cup {"survivalA"},
                !.rows = [i \in 1..Len(@) |-> @[i] @@ ("survivalA" :> survivalA(@[i]))]]
    /\ pc' = "censor"
    /\ UNCHANGED <<infile, outpath_at_start, outfile, alive, deceased, dates,
                   mask, exit_code, log>>

\* mutant: the two flags are exchanged
censor_dict_swapped == (deceased :> 0) @@ (alive :> 1)

\* mutant: Series.map(d), where a value that is no key of d becomes NaN
replace_as_map(v, d) == IF v \in DOMAIN d THEN PyInt(d[v]) ELSE PyNaN

\* the dict {vital_status_value_alive: 0, vital_status_value_deceased: 1}:
\* a later entry of a dict display replaces an earlier one with an equal key
censor_dict == (deceased :> 1) @@ (alive :> 0)

\* Series.replace(d), for one value: a key of d becomes its value, any
\* other value stays as it is
replace(v, d) == IF v \in DOMAIN d THEN PyInt(d[v]) ELSE PyStr(v)

ComputeCensor ==
    /\ pc = "censor"
    /\ df' = [df EXCEPT
                !.columns = @ \cup {"censorA.0yes.1no"},
                !.rows = [i \in 1..Len(@) |->
                            @[i] @@ ("censorA.0yes.1no" :>
                                       replace(@[i]["vital_status_at_study_end"],
                                               censor_dict))]]
    /\ pc' = "save"
    /\ UNCHANGED <<infile, outpath_at_start, outfile, alive, deceased, dates,
                   mask, exit_code, log>>

cols == << col_index, "censorA.0yes.1no", "survivalA" >>

\* df[cols].to_csv(outpath, index=False): a header and one line per row
to_csv(rows) ==
    [exists |-> TRUE,
     header |-> cols,
     rows |-> [i \in 1..Len(rows) |-> Restrict(rows[i], Range(cols))]]

Save ==
    /\ pc = "save"
    /\ log' = Append(log, "green")
    /\ outfile' = to_csv(df.rows)
    /\ pc' = "done"
    /\ exit_code' = 0
    /\ UNCHANGED <<infile, outpath_at_start, alive, deceased, df, dates, mask>>

Next ==
    \/ CheckOutpath
    \/ ReadInput
    \/ CheckColumns
    \/ CheckVitalStatus
    \/ FormatDiagnosis
    \/ ParseDiagnosis
    \/ FormatLastContact
    \/ ParseLastContact
    \/ DropUnparseable
    \/ ComputeMask
    \/ Reclassify
    \/ ClipLastContact
    \/ FilterDiagnosed
    \/ ComputeSurvival
    \/ ComputeCensor
    \/ Save

Spec == Init /\ [][Next]_vars

(***************************************************************************)
(* Vocabulary of the properties, stated on the raw cells of the input      *)
(* table rather than through the pipeline's own operators.                 *)
(***************************************************************************)
StudyEndYMD == <<2020, 12, 31>>

MonthLengths == <<31, 28, 31, 30, 31, 30, 31, 31, 30, 31, 30, 31>>

\* whether the cells ymd denote a day of the calendar (four-digit year)
IsCalendarDate(ymd) ==
    /\ ymd[1] \in 1000..9999
    /\ ymd[2] \in 1..12
    /\ ymd[3] >= 1
    /\ ymd[3] <= MonthLengths[ymd[2]] +
                 (IF ymd[2] = 2 /\ ymd[1] % 4 = 0
                     /\ (ymd[1] % 100 # 0 \/ ymd[1] % 400 = 0) THEN 1 ELSE 0)

\* a <= b for two calendar dates
YMDLeq(a, b) ==
    \/ a[1] < b[1]
    \/ a[1] = b[1] /\ a[2] < b[2]
    \/ a[1] = b[1] /\ a[2] = b[2] /\ a[3] <= b[3]

YMDMin(a, b) == IF YMDLeq(a, b) THEN a ELSE b

\* days since 1970-01-01 of a calendar date (era-based day count)
CivilDay(ymd) ==
    LET y == IF ymd[2] <= 2 THEN ymd[1] - 1 ELSE ymd[1]
        era == y \div 400
        yoe == y - (era * 400)
        mp == IF ymd[2] > 2 THEN ymd[2] - 3 ELSE ymd[2] + 9
        doy == (((153 * mp) + 2) \div 5) + ymd[3] - 1
        doe == (yoe * 365) + (yoe \div 4) - (yoe \div 100) + doy
    IN (era * 146097) + doe - 719468

DiagOf(r) == << r[col_dod_yyyy], r[col_dod_mm], r[col_dod_dd] >>
ContactOf(r) == << r[col_dolc_yyyy], r[col_dolc_mm], r[col_dolc_dd] >>

\* the input has every expected column
InputComplete == \A c \in Range(expected_cols) : c \in infile.columns

\* input row i is one the output must hold
Retained(i) ==
    /\ IsCalendarDate(DiagOf(infile.rows[i]))
    /\ IsCalendarDate(ContactOf(infile.rows[i]))
    /\ YMDLeq(DiagOf(infile.rows[i]), StudyEndYMD)

\* the positions of the output records carrying identifier i
OutputOf(i) == { k \in 1..Len(outfile.rows) : outfile.rows[k][col_index] = i }

AfterReclassify == pc \in {"clip", "filter", "survival", "censor", "save", "done"}
AfterClip == pc \in {"filter", "survival", "censor", "save", "done"}
AfterFilter == pc \in {"survival", "censor", "save", "done"}
AfterSurvival == pc \in {"censor", "save", "done"}

(***************************************************************************)
(* C1: if the output path exists when main starts, the run ends with exit  *)
(* status 1 without ever reading the input: the data frame is never        *)
(* loaded, no later block of main is reached, and the output file keeps    *)
(* the content it had.                                                     *)
(***************************************************************************)
C1_ExistingOutputAborts ==
    outpath_at_start.exists =>
        /\ pc \in {"start", "exit"}
        /\ df = NotRead
        /\ outfile = outpath_at_start
        /\ (pc = "start" => exit_code = Running /\ ENABLED CheckOutpath)
        /\ (pc = "exit" => exit_code = 1)

C1_Witness ==
    /\ outpath_at_start.exists
    /\ pc = "exit"
    /\ Len(infile.rows) > 0
    /\ InputComplete

(***************************************************************************)
(* C2: if an expected column is missing, or the alive sentinel does not    *)
(* occur in the vital-status column of the input, the run exits with       *)
(* status 1 before date reconstruction or any later block, the data frame  *)
(* is never transformed, and the output path is left as it was.            *)
(***************************************************************************)
AliveAbsent ==
    InputComplete /\ alive \notin ColumnSet(infile.rows, col_vital_status)

C2_ValidationAborts ==
    (~InputComplete \/ AliveAbsent) =>
        /\ pc \in (IF InputComplete
                   THEN {"start", "read", "check_columns", "check_vital_status", "exit"}
                   ELSE {"start", "read", "check_columns", "exit"})
        /\ df \in {NotRead,
                   [loaded |-> TRUE, columns |-> infile.columns, rows |-> infile.rows]}
        /\ dates = << >>
        /\ mask = << >>
        /\ outfile = outpath_at_start
        /\ (pc = "exit" => exit_code = 1)
        /\ (pc # "exit" => exit_code = Running /\ ENABLED Next)

C2_Witness ==
    /\ ~outpath_at_start.exists
    /\ AliveAbsent
    /\ Len(infile.rows) = MaxRows
    /\ pc = "exit"

(***************************************************************************)
(* C3: the output holds exactly one record for each input row whose two    *)
(* dates are calendar dates and whose diagnosis date is on or before       *)
(* 2020-12-31, none for any other input row, and nothing else.             *)
(***************************************************************************)
C3_OutputRowsAreRetainedRows ==
    pc = "done" =>
        /\ \A i \in 1..Len(infile.rows) :
              Cardinality(OutputOf(i)) = (IF Retained(i) THEN 1 ELSE 0)
        /\ \A k \in 1..Len(outfile.rows) :
              outfile.rows[k][col_index] \in 1..Len(infile.rows)

C3_Witness ==
    /\ pc = "done"
    /\ \E i, j \in 1..Len(infile.rows) :
          /\ Retained(i)
          /\ OutputOf(i) # {}
          /\ ~IsCalendarDate(DiagOf(infile.rows[j]))
          /\ OutputOf(j) = {}

\* a row diagnosed after the study end is left out
C3_WitnessLate ==
    /\ pc = "done"
    /\ \E j \in 1..Len(infile.rows) :
          /\ IsCalendarDate(DiagOf(infile.rows[j]))
          /\ IsCalendarDate(ContactOf(infile.rows[j]))
          /\ ~YMDLeq(DiagOf(infile.rows[j]), StudyEndYMD)
          /\ OutputOf(j) = {}

(***************************************************************************)
(* C4: in every row, vital_status_at_study_end is the alive sentinel when  *)
(* the raw vital status is the deceased sentinel and the last contact is   *)
(* strictly after 2020-12-31, and the raw vital status otherwise.          *)
(***************************************************************************)
ShouldReclassify(r) ==
    r[col_vital_status] = deceased /\ ~YMDLeq(ContactOf(r), StudyEndYMD)

C4_Reclassification ==
    AfterReclassify =>
        \A k \in 1..Len(df.rows) :
            df.rows[k]["vital_status_at_study_end"] =
                (IF ShouldReclassify(df.rows[k]) THEN alive
                 ELSE df.rows[k][col_vital_status])

C4_Witness ==
    /\ AfterFilter
    /\ alive # deceased
    /\ \E k \in 1..Len(df.rows) :
          /\ ShouldReclassify(df.rows[k])
          /\ df.rows[k]["vital_status_at_study_end"] = alive

\* a deceased row last seen on the study end date keeps its status
C4_WitnessBoundary ==
    /\ AfterFilter
    /\ alive # deceased
    /\ \E k \in 1..Len(df.rows) :
          /\ df.rows[k][col_vital_status] = deceased
          /\ ContactOf(df.rows[k]) = StudyEndYMD
          /\ df.rows[k]["vital_status_at_study_end"] = deceased

(***************************************************************************)
(* C5: in every row, whatever its vital status, the clipped last-contact   *)
(* date is min(last contact, 2020-12-31): never after the study end, and   *)
(* the last-contact date itself when that is on or before the study end.   *)
(***************************************************************************)
C5_Clipping ==
    AfterClip =>
        \A k \in 1..Len(df.rows) :
            LET r == df.rows[k]
                c == r["date_of_last_contact_clipped_yyyymmdd"]
            IN /\ c.valid
               /\ c.ord <= END_DATE.ord
               /\ c.ord - END_DATE.ord =
                     CivilDay(YMDMin(ContactOf(r), StudyEndYMD)) - CivilDay(StudyEndYMD)
               /\ (YMDLeq(ContactOf(r), StudyEndYMD) =>
                       c = r["date_of_last_contact_yyyymmdd"])

C5_Witness ==
    /\ AfterFilter
    /\ \E k \in 1..Len(df.rows) :
          /\ ~YMDLeq(ContactOf(df.rows[k]), StudyEndYMD)
          /\ df.rows[k][col_vital_status] # deceased
          /\ df.rows[k]["date_of_last_contact_clipped_yyyymmdd"] = END_DATE
    /\ \E k \in 1..Len(df.rows) :
          /\ ContactOf(df.rows[k]) = <<2019, 6, 15>>
          /\ df.rows[k]["date_of_last_contact_clipped_yyyymmdd"] # END_DATE

(***************************************************************************)
(* C6: in every retained row, survivalA is the number of days from the     *)
(* diagnosis date to the clipped last-contact date, and it is >= 0 when    *)
(* the diagnosis date is on or before the clipped last-contact date.       *)
(***************************************************************************)
C6_SurvivalDays ==
    AfterSurvival =>
        \A k \in 1..Len(df.rows) :
            LET r == df.rows[k]
                clipped == YMDMin(ContactOf(r), StudyEndYMD)
            IN /\ r["survivalA"] = CivilDay(clipped) - CivilDay(DiagOf(r))
               /\ (YMDLeq(DiagOf(r), clipped) => r["survivalA"] >= 0)
               /\ (pc = "done" => outfile.rows[k]["survivalA"] = r["survivalA"])

C6_Witness ==
    /\ pc = "done"
    /\ \E k \in 1..Len(df.rows) : outfile.rows[k]["survivalA"] = 2191
    /\ \E k \in 1..Len(df.rows) : outfile.rows[k]["survivalA"] < 0

(***************************************************************************)
(* C7: with distinct sentinels, the censor flag written for a row is 0     *)
(* when its vital_status_at_study_end is the alive sentinel and 1 when it  *)
(* is the deceased sentinel; a deceased row last seen after 2020-12-31     *)
(* gets 0, a deceased row last seen on or before 2020-12-31 gets 1.        *)
(***************************************************************************)
C7_CensorFlag ==
    (pc = "done" /\ alive # deceased) =>
        \A k \in 1..Len(outfile.rows) :
            LET r == df.rows[k]
                censor == outfile.rows[k]["censorA.0yes.1no"]
            IN /\ outfile.rows[k][col_index] = r[col_index]
               /\ (r["vital_status_at_study_end"] = alive => censor = PyInt(0))
               /\ (r["vital_status_at_study_end"] = deceased => censor = PyInt(1))
               /\ (r[col_vital_status] = deceased =>
                      censor = (IF YMDLeq(ContactOf(r), StudyEndYMD)
                                THEN PyInt(1) ELSE PyInt(0)))

C7_Witness ==
    /\ pc = "done"
    /\ alive # deceased
    /\ \E k \in 1..Len(outfile.rows) :
          /\ df.rows[k][col_vital_status] = alive
          /\ outfile.rows[k]["censorA.0yes.1no"] = PyInt(0)
    /\ \E k \in 1..Len(outfile.rows) :
          /\ df.rows[k][col_vital_status] = deceased
          /\ YMDLeq(ContactOf(df.rows[k]), StudyEndYMD)
          /\ outfile.rows[k]["censorA.0yes.1no"] = PyInt(1)

\* a deceased row last seen after the study end is written with censor 0
C7_WitnessReclassified ==
    /\ pc = "done"
    /\ alive # deceased
    /\ \E k \in 1..Len(outfile.rows) :
          /\ df.rows[k][col_vital_status] = deceased
          /\ ~YMDLeq(ContactOf(df.rows[k]), StudyEndYMD)
          /\ outfile.rows[k]["censorA.0yes.1no"] = PyInt(0)

IsScenarioA(r) ==
    /\ DiagOf(r) = <<2015, 1, 1>>
    /\ ContactOf(r) = <<2019, 6, 15>>
    /\ r[col_vital_status] = "Alive"

\* the run finished with the default sentinels and input row i is scenario A
ScenarioADone(i) ==
    /\ pc = "done"
    /\ alive = "Alive"
    /\ deceased = "Dead"
    /\ i \in 1..Len(infile.rows)
    /\ IsScenarioA(infile.rows[i])

\* input row i is written once, with censor 0 and survival_days d
WrittenWith(i, d) ==
    /\ Cardinality(OutputOf(i)) = 1
    /\ \A k \in OutputOf(i) :
          /\ outfile.rows[k]["censorA.0yes.1no"] = PyInt(0)
          /\ outfile.rows[k]["survivalA"] = d

\* C9, as stated: the patient of scenario A is written with censor 0 and
\* survival_days 1627
C9_ScenarioA_1627 ==
    \A i \in 1..MaxRows : ScenarioADone(i) => WrittenWith(i, 1627)

\* C9, amended: the patient of scenario A is written with censor 0 and
\* survival_days 1626, the number of days from 2015-01-01 to 2019-06-15
C9_ScenarioA_1626 ==
    \A i \in 1..MaxRows : ScenarioADone(i) => WrittenWith(i, 1626)

C9_Witness ==
    \E i \in 1..MaxRows : ScenarioADone(i) /\ WrittenWith(i, 1626)

(***************************************************************************)
(* C10: when every expected column is present, the alive sentinel occurs,  *)
(* the deceased sentinel does not and the output path is free, the run     *)
(* warns (a yellow message) and never aborts: every block up to the save   *)
(* is taken, and the run ends with exit status 0 and the output written.   *)
(***************************************************************************)
DeceasedAbsentOnly ==
    /\ ~outpath_at_start.exists
    /\ InputComplete
    /\ alive \in ColumnSet(infile.rows, col_vital_status)
    /\ deceased \notin ColumnSet(infile.rows, col_vital_status)

C10_DeceasedAbsentWarnsOnly ==
    DeceasedAbsentOnly =>
        /\ pc # "exit"
        /\ (pc # "done" => exit_code = Running /\ ENABLED Next)
        /\ (pc \notin {"start", "read", "check_columns", "check_vital_status"} =>
               log \in {<<"yellow">>, <<"yellow", "green">>})
        /\ (pc = "done" =>
               /\ exit_code = 0
               /\ outfile.exists
               /\ outfile.header = cols
               /\ log = <<"yellow", "green">>)

C10_Witness ==
    /\ DeceasedAbsentOnly
    /\ pc = "done"
    /\ Len(outfile.rows) > 0

====
